---- MODULE Spec2Model ----
(***************************************************************************)
(* Model of daily_job_search_automation.py: the paginated search loop      *)
(* (gather_results / search_google_cse), the digest formatter              *)
(* (format_email_html), the SMTP session (send_email_smtp) and the         *)
(* orchestrator (main).  Text is modelled as sequences of one-character    *)
(* strings so that escaping and markup can be inspected.                   *)
(***************************************************************************)
EXTENDS Integers, Sequences, FiniteSets, TLC

VARIABLES env, QUERY, MAX_RESULTS, pc, out, results, start, ncalls,
          lastCall, allExact, noOver, html, smtpLog, delivered

vars == <<env, QUERY, MAX_RESULTS, pc, out, results, start, ncalls,
          lastCall, allExact, noOver, html, smtpLog, delivered>>

----------------------------------------------------------------------------
(* Bounds of the exploration *)

\* largest MAX_RESULTS explored (more than one full page of 10)
MaxTotal == 12
\* largest number of items one search response carries (more than a page)
MaxReturn == 11
\* longest result list handed directly to the formatter
MaxFmtLen == 2
\* cap on the number of search calls of one run; the loop itself stays below
\* it, since it makes at most MaxTotal calls
MaxCalls == 15

----------------------------------------------------------------------------
(* Values: optional text *)

None == [some |-> FALSE, text |-> <<>>]
Some(t) == [some |-> TRUE, text |-> t]

\* Python truthiness of an optional string: None and '' are falsy
Truthy(v) == v.some /\ v.text # <<>>

\* Python `v or d` on an optional string
OrDefault(v, d) == IF Truthy(v) THEN v.text ELSE d

Min(a, b) == IF a < b THEN a ELSE b

----------------------------------------------------------------------------
(* Literal text of the program *)

PageSize == 10

H2Open == <<"<","h","2",">","J","o","b"," ","s","e","a","r","c","h"," ","r","e","s","u","l","t","s",":"," ">>
H2Close == <<"<","/","h","2",">">>
RunAtOpen == <<"<","p",">","S","e","a","r","c","h"," ","r","u","n"," ","a","t"," ">>
RunAtClose == <<" ","(","I","S","T",")","<","/","p",">">>
NoResultsLine == <<"<","p",">","N","o"," ","r","e","s","u","l","t","s"," ","f","o","u","n","d",".","<","/","p",">">>
OlOpen == <<"<","o","l",">">>
OlClose == <<"<","/","o","l",">">>
LiOpen == <<"<","l","i",">","<","a"," ","h","r","e","f","=","\"">>
LiMid1 == <<"\"",">">>
LiMid2 == <<"<","/","a",">","<","b","r","/",">","<","s","m","a","l","l",">">>
LiClose == <<"<","/","s","m","a","l","l",">","<","/","l","i",">">>
FooterLine == <<"<","h","r","/",">","<","p",">","A","u","t","o","m","a","t","i","o","n"," ","g","e","n","e","r","a","t","e","d"," ","-"," ","t","w","e","a","k"," ","t","h","e"," ","q","u","e","r","i","e","s"," ","o","r"," ","s","o","u","r","c","e","s"," ","i","n"," ","t","h","e"," ","s","c","r","i","p","t"," ","a","s"," ","n","e","e","d","e","d",".","<","/","p",">">>
NoTitle == <<"N","o"," ","t","i","t","l","e">>

MsgMissing == "Missing one of required environment variables: CSE_API_KEY, CSE_CX, EMAIL_USER, EMAIL_PASS, RECIPIENT_EMAIL"
MsgGathering == "Gathering job results..."
MsgFound == "Found {n} results"
MsgSending == "Sending email..."
MsgSent == "Email sent."

Say(m, n) == [msg |-> m, n |-> n]

----------------------------------------------------------------------------
(* html.escape and str.strip *)

RECURSIVE Replace(_, _, _)
\* str.replace(c, r) for a one-character c
Replace(s, c, r) ==
    IF s = <<>> THEN <<>>
    ELSE (IF Head(s) = c THEN r ELSE <<Head(s)>>) \o Replace(Tail(s), c, r)

\* a formatter that forgets to escape
escape_mut(s) == s

\* html.escape(s), quote=True: '&' first, then '<', '>', '"', "'"
escape(s) ==
    Replace(Replace(Replace(Replace(Replace(s,
        "&", <<"&","a","m","p",";">>),
        "<", <<"&","l","t",";">>),
        ">", <<"&","g","t",";">>),
        "\"", <<"&","q","u","o","t",";">>),
        "'", <<"&","#","x","2","7",";">>)

Whitespace == {" ", "\n", "\t"}

RECURSIVE LStrip(_)
LStrip(s) == IF s # <<>> /\ Head(s) \in Whitespace THEN LStrip(Tail(s)) ELSE s

RECURSIVE RStrip(_)
RStrip(s) ==
    IF s # <<>> /\ s[Len(s)] \in Whitespace THEN RStrip(SubSeq(s, 1, Len(s) - 1)) ELSE s

\* str.strip()
Strip(s) == RStrip(LStrip(s))

RECURSIVE Join(_, _)
\* sep.join(lines)
Join(lines, sep) ==
    IF lines = <<>> THEN <<>>
    ELSE IF Len(lines) = 1 THEN lines[1]
    ELSE lines[1] \o sep \o Join(Tail(lines), sep)

----------------------------------------------------------------------------
(* format_email_html *)

\* one <li> line of the digest
ListItem(r) ==
    LET title == escape(OrDefault(r.title, NoTitle))
        link == escape(OrDefault(r.link, <<>>))
        snippet == escape(Strip(OrDefault(r.snippet, <<>>)))
    IN LiOpen \o link \o LiMid1 \o title \o LiMid2 \o snippet \o LiClose

\* a formatter that always renders the list, even when it is empty
ListBlock_mut(rs) ==
    <<OlOpen>> \o [i \in 1..Len(rs) |-> ListItem(rs[i])] \o <<OlClose>>

\* the lines between the header and the footer
ListBlock(rs) ==
    IF rs = <<>> THEN <<NoResultsLine>>
    ELSE <<OlOpen>> \o [i \in 1..Len(rs) |-> ListItem(rs[i])] \o <<OlClose>>

format_email_html(rs, query, now) ==
    Join(<<H2Open \o escape(query) \o H2Close,
           RunAtOpen \o now \o RunAtClose>>
         \o ListBlock(rs)
         \o <<FooterLine>>, <<"\n">>)

----------------------------------------------------------------------------
(* The search API as seen by the client *)

Item(t, l, s, d) == [title |-> t, link |-> l, snippet |-> s, displayLink |-> d]

\* the documents the search engine serves, by rank, repeating
ItemPool ==
    << Item(Some(<<"A","<","b",">">>), Some(<<"h","?","a","&","b">>), Some(<<" ","x","&","y"," ">>), Some(<<"h">>)),
       Item(None, None, None, None),
       Item(Some(<<>>), Some(<<"u","\"">>), Some(<<"'","<","/","l","i",">">>), Some(<<"u">>)),
       Item(Some(<<"T">>), Some(<<"u">>), Some(<<"s">>), None) >>

Corpus(i) == ItemPool[((i - 1) % Len(ItemPool)) + 1]

\* a response body carrying k items for a request at offset s
ServerItems(s, k) == [j \in 1..k |-> Corpus(s + j - 1)]

\* what one HTTP exchange can turn out to be
Responses(s) ==
    {[kind |-> "timeout", items |-> <<>>], [kind |-> "http_error", items |-> <<>>]}
    \cup {[kind |-> "ok", items |-> ServerItems(s, k)] : k \in 0..MaxReturn}

\* a client that never calls raise_for_status
search_google_cse_mut(num, start_, resp) ==
    LET params == [num |-> Min(num, PageSize), start |-> start_] IN
    IF resp.kind = "timeout"
    THEN [raised |-> TRUE, params |-> params, items |-> <<>>]
    ELSE [raised |-> FALSE, params |-> params, items |-> resp.items]

\* search_google_cse: the request parameters and the outcome of the call
search_google_cse(num, start_, resp) ==
    LET params == [num |-> Min(num, PageSize), start |-> start_] IN
    IF resp.kind = "timeout"
    THEN [raised |-> TRUE, params |-> params, items |-> <<>>]
    ELSE IF resp.kind = "http_error"
    THEN [raised |-> TRUE, params |-> params, items |-> <<>>]
    ELSE [raised |-> FALSE, params |-> params, items |-> resp.items]

----------------------------------------------------------------------------
(* gather_results *)

LoopCond_mut(rs, max_total) == Len(rs) <= max_total

\* while len(results) < max_total
LoopCond(rs, max_total) == Len(rs) < max_total

ReqNum_mut(max_total, n) == PageSize

\* num=min(10, max_total - len(results))
ReqNum(max_total, n) == Min(PageSize, max_total - n)

BreakOnEmpty_mut(items) == FALSE

\* if not items: break
BreakOnEmpty(items) == items = <<>>

ToResult(it) == [title |-> it.title, link |-> it.link, snippet |-> it.snippet]

AppendItems_mut(rs, items) == Append(rs, ToResult(items[1]))

\* for it in items: results.append({...})
AppendItems(rs, items) == rs \o [j \in 1..Len(items) |-> ToResult(items[j])]

NextStart_mut(s, items) == s + 1

\* start += len(items)
NextStart(s, items) == s + Len(items)

----------------------------------------------------------------------------
(* main and send_email_smtp *)

Required == {"CSE_API_KEY", "CSE_CX", "EMAIL_USER", "EMAIL_PASS", "RECIPIENT_EMAIL"}

ConfigOK_mut(e) ==
    Truthy(e["CSE_API_KEY"]) /\ Truthy(e["CSE_CX"]) /\ Truthy(e["EMAIL_USER"])
    /\ Truthy(e["EMAIL_PASS"])

\* CSE_API_KEY and CSE_CX and EMAIL_USER and EMAIL_PASS and RECIPIENT_EMAIL
ConfigOK(e) ==
    Truthy(e["CSE_API_KEY"]) /\ Truthy(e["CSE_CX"]) /\ Truthy(e["EMAIL_USER"])
    /\ Truthy(e["EMAIL_PASS"]) /\ Truthy(e["RECIPIENT_EMAIL"])

SmtpSteps_mut == <<"connect", "ehlo", "starttls", "sendmail", "login", "quit">>

\* the calls of send_email_smtp on the session, in program order
SmtpSteps == <<"connect", "ehlo", "starttls", "login", "sendmail", "quit">>

\* record of the most recent HTTP exchange (none yet)
NoCall == [num |-> 0, start |-> 0, have |-> 0, kind |-> "none", status |-> "none", got |-> 0]

EnvValues == {None, Some(<<>>), Some(<<"v">>)}

QueryPool == { <<"j","o","b","s">>, <<"<","o","l",">","&","<","l","i",">">> }

Clocks == { <<"2","0","2","6","-","0","1","-","0","1"," ","1","3",":","0","0"," ","U","T","C","+","0","5",":","3","0">>,
            <<"2","0","2","6","-","1","2","-","3","1"," ","2","3",":","5","9"," ","U","T","C","+","0","5",":","3","0">> }

Init ==
    /\ env \in [Required -> EnvValues]
    /\ QUERY \in QueryPool
    /\ MAX_RESULTS \in -1..MaxTotal
    /\ pc = "main"
    /\ out = <<>>
    /\ results = <<>>
    /\ start = 1
    /\ ncalls = 0
    /\ lastCall = NoCall
    /\ allExact = TRUE
    /\ noOver = TRUE
    /\ html = None
    /\ smtpLog = <<>>
    /\ delivered = <<>>

\* main, lines 122-126, and the entry of gather_results
CheckConfig ==
    /\ pc = "main"
    /\ IF ~ConfigOK(env)
       THEN /\ out' = Append(out, Say(MsgMissing, 0))
            /\ pc' = "returned"
       ELSE /\ out' = Append(out, Say(MsgGathering, 0))
            /\ pc' = "gather"
    /\ results' = <<>>
    /\ start' = 1
    /\ UNCHANGED <<env, QUERY, MAX_RESULTS, ncalls, lastCall, allExact, noOver,
                   html, smtpLog, delivered>>

\* one iteration of the while loop of gather_results
SearchCall ==
    /\ pc = "gather"
    /\ LoopCond(results, MAX_RESULTS)
    /\ ncalls < MaxCalls
    /\ \E resp \in Responses(start) :
          LET r == search_google_cse(ReqNum(MAX_RESULTS, Len(results)), start, resp)
          IN /\ ncalls' = ncalls + 1
             /\ lastCall' = [num |-> r.params.num, start |-> r.params.start,
                             have |-> Len(results), kind |-> resp.kind,
                             status |-> IF r.raised THEN "raised" ELSE "ok",
                             got |-> Len(r.items)]
             /\ allExact' = (allExact /\ ~r.raised /\ Len(r.items) = r.params.num)
             /\ noOver' = (noOver /\ Len(r.items) <= r.params.num)
             /\ IF r.raised
                THEN pc' = "raised" /\ UNCHANGED <<results, start>>
                ELSE IF BreakOnEmpty(r.items)
                THEN pc' = "gathered" /\ UNCHANGED <<results, start>>
                ELSE /\ results' = AppendItems(results, r.items)
                     /\ start' = NextStart(start, r.items)
                     /\ pc' = "gather"
    /\ UNCHANGED <<env, QUERY, MAX_RESULTS, out, html, smtpLog, delivered>>

\* the loop condition fails: return results
GatherReturn ==
    /\ pc = "gather"
    /\ ~LoopCond(results, MAX_RESULTS)
    /\ pc' = "gathered"
    /\ UNCHANGED <<env, QUERY, MAX_RESULTS, out, results, start, ncalls, lastCall,
                   allExact, noOver, html, smtpLog, delivered>>

\* main, lines 128-133: report the count, format the digest
FormatDigest ==
    /\ pc = "gathered"
    /\ \E now \in Clocks :
          html' = Some(format_email_html(results, QUERY, now))
    /\ out' = out \o <<Say(MsgFound, Len(results)), Say(MsgSending, 0)>>
    /\ pc' = "smtp"
    /\ UNCHANGED <<env, QUERY, MAX_RESULTS, results, start, ncalls, lastCall,
                   allExact, noOver, smtpLog, delivered>>

\* the next call of send_email_smtp on the session; after quit, main prints
SmtpStep ==
    /\ pc = "smtp"
    /\ Len(smtpLog) < Len(SmtpSteps)
    /\ \E ok \in BOOLEAN :
          LET step == SmtpSteps[Len(smtpLog) + 1]
              last == Len(smtpLog) + 1 = Len(SmtpSteps)
          IN /\ smtpLog' = Append(smtpLog, [step |-> step, ok |-> ok])
             /\ delivered' = IF step = "sendmail" /\ ok
                             THEN Append(delivered, html.text) ELSE delivered
             /\ pc' = IF ~ok THEN "raised" ELSE IF last THEN "done" ELSE "smtp"
             /\ out' = IF ok /\ last THEN Append(out, Say(MsgSent, 0)) ELSE out
    /\ UNCHANGED <<env, QUERY, MAX_RESULTS, results, start, ncalls, lastCall,
                   allExact, noOver, html>>

Next == CheckConfig \/ SearchCall \/ GatherReturn \/ FormatDigest \/ SmtpStep

Spec == Init /\ [][Next]_vars

----------------------------------------------------------------------------
(* gather_results on its own: any max_total, config present *)

InitGather ==
    /\ env = [k \in Required |-> Some(<<"v">>)]
    /\ QUERY \in QueryPool
    /\ MAX_RESULTS \in -1..MaxTotal
    /\ pc = "gather"
    /\ out = <<Say(MsgGathering, 0)>>
    /\ results = <<>>
    /\ start = 1
    /\ ncalls = 0
    /\ lastCall = NoCall
    /\ allExact = TRUE
    /\ noOver = TRUE
    /\ html = None
    /\ smtpLog = <<>>
    /\ delivered = <<>>

NextGather == SearchCall \/ GatherReturn

\* every search call is blocking with a timeout: it returns or raises, and
\* the loop then goes on
GatherLive == InitGather /\ [][NextGather]_vars /\ WF_vars(NextGather)

----------------------------------------------------------------------------
(* The formatter on its own: any short result list, any query *)

FmtTitles == {None, Some(<<>>), Some(<<"<","b",">","&">>)}
FmtLinks == {None, Some(<<"a","&","b","\"">>), Some(<<"u">>)}
FmtSnippets == {None, Some(<<" ","<","i",">","x"," ">>), Some(<<"'","&","a","m","p",";">>)}

FmtItems == {[title |-> t, link |-> l, snippet |-> s] :
                t \in FmtTitles, l \in FmtLinks, s \in FmtSnippets}

RECURSIVE SeqsUpTo(_, _)
SeqsUpTo(S, n) ==
    IF n = 0 THEN {<<>>}
    ELSE LET shorter == SeqsUpTo(S, n - 1)
         IN shorter \cup {Append(q, x) : q \in {r \in shorter : Len(r) = n - 1}, x \in S}

InitFmt ==
    /\ env = [k \in Required |-> Some(<<"v">>)]
    /\ QUERY \in QueryPool
    /\ MAX_RESULTS = PageSize
    /\ pc = "gathered"
    /\ out = <<Say(MsgGathering, 0)>>
    /\ results \in SeqsUpTo(FmtItems, MaxFmtLen)
    /\ start = 1
    /\ ncalls = 0
    /\ lastCall = NoCall
    /\ allExact = TRUE
    /\ noOver = TRUE
    /\ html = None
    /\ smtpLog = <<>>
    /\ delivered = <<>>

NextFmt == FormatDigest

SpecFmt == InitFmt /\ [][NextFmt]_vars

----------------------------------------------------------------------------
(* Helpers of the properties *)

CeilDiv(n, d) == (n + d - 1) \div d

Max0(n) == IF n > 0 THEN n ELSE 0

Count(s, c) == Cardinality({i \in DOMAIN s : s[i] = c})

Contains(hay, needle) ==
    \E i \in 1..(Len(hay) - Len(needle) + 1) :
        SubSeq(hay, i, i + Len(needle) - 1) = needle

StartsAt(s, i, w) == i + Len(w) - 1 <= Len(s) /\ SubSeq(s, i, i + Len(w) - 1) = w

Entities == { <<"&","a","m","p",";">>, <<"&","l","t",";">>, <<"&","g","t",";">>,
              <<"&","q","u","o","t",";">>, <<"&","#","x","2","7",";">> }

SpecialChars == {"&", "<", ">", "\"", "'"}

CountSpecial(s) == Cardinality({i \in DOMAIN s : s[i] \in SpecialChars})

RECURSIVE SumSpecial(_)
\* number of characters of the fields of a result list that need an entity
SumSpecial(rs) ==
    IF rs = <<>> THEN 0
    ELSE CountSpecial(IF Truthy(rs[1].title) THEN rs[1].title.text ELSE <<>>)
         + CountSpecial(rs[1].link.text)
         + CountSpecial(rs[1].snippet.text)
         + SumSpecial(Tail(rs))

\* number of tags the template itself writes for a list of n results
TemplateTags(n) == IF n = 0 THEN 9 ELSE 9 + 7 * n

SearchFailed == lastCall.kind \in {"timeout", "http_error"}

FirstCallEmpty == ncalls = 1 /\ lastCall.kind = "ok" /\ lastCall.got = 0 /\ lastCall.have = 0

----------------------------------------------------------------------------
(* Properties *)

\* C1: gather_results returns at most max_total results, whatever the search
\* API returns (stated for the caps a list length can meet, max_total >= 0).
C1_AtMostMaxTotal ==
    (pc = "gathered" /\ MAX_RESULTS >= 0) => Len(results) <= MAX_RESULTS

\* C2: when a required configuration value is absent, main prints the
\* diagnostic and returns, and no search call and no SMTP step is made.
C2_MissingConfigNoNetwork ==
    (\E k \in Required : ~env[k].some) =>
        /\ pc \in {"main", "returned"}
        /\ ncalls = 0 /\ lastCall = NoCall
        /\ smtpLog = <<>> /\ delivered = <<>>
        /\ pc = "returned" => out = <<Say(MsgMissing, 0)>>

C2_Witness == pc = "returned" /\ ~env["RECIPIENT_EMAIL"].some /\ env["CSE_API_KEY"] = Some(<<"v">>)

\* C3 as stated: a run of gather_results that ends with N <= max_total results
\* has issued exactly ceil(N/10) search calls.
C3_CallsExactlyCeil ==
    (pc = "gathered" /\ Len(results) <= MAX_RESULTS) =>
        ncalls = CeilDiv(Len(results), 10)

\* C3 amended: a run of gather_results that ends with N results has issued at
\* least ceil(N/10) search calls when no call returned more than it asked for,
\* and exactly ceil(N/10) when every call returned exactly what it asked for.
C3_CallsCeilWhenFullPages ==
    pc = "gathered" =>
        /\ noOver => ncalls >= CeilDiv(Len(results), 10)
        /\ allExact => ncalls = CeilDiv(Len(results), 10)

C3_Witness == pc = "gathered" /\ allExact /\ ncalls = 2 /\ Len(results) > 10

\* C4: once a search call has failed the run is over with the failure raised:
\* no further search call, no digest, no SMTP step.
C4_SearchFailureEndsRun ==
    /\ [](SearchFailed =>
            /\ pc = "raised"
            /\ html = None /\ smtpLog = <<>> /\ delivered = <<>>
            /\ Len(results) = lastCall.have)
    /\ [][SearchFailed => UNCHANGED <<ncalls, lastCall, html, smtpLog, delivered, out>>]_vars

C4_Witness == pc = "raised" /\ lastCall.kind = "http_error" /\ ncalls = 2 /\ Len(results) > 0

\* C5: the SMTP session steps happen in the order connect, ehlo, starttls,
\* login, sendmail, quit, each at most once, each only after all earlier ones
\* succeeded; a failed step ends the run raised; 'Email sent.' is printed only
\* after all six succeeded.
C5_SmtpOrder ==
    LET order == <<"connect", "ehlo", "starttls", "login", "sendmail", "quit">>
        n == Len(smtpLog)
    IN /\ n <= 6
       /\ \A i \in 1..n : smtpLog[i].step = order[i]
       /\ \A i \in 1..(n - 1) : smtpLog[i].ok
       /\ (n > 0 /\ ~smtpLog[n].ok) => pc = "raised"
       /\ Len(delivered) <= 1
       /\ delivered # <<>> => (n >= 5 /\ smtpLog[3].ok /\ smtpLog[4].ok /\ smtpLog[5].ok)
       /\ (\E i \in DOMAIN out : out[i].msg = MsgSent) =>
              (n = 6 /\ smtpLog[6].ok /\ pc = "done" /\ Len(delivered) = 1)

C5_Witness == pc = "done" /\ Len(smtpLog) = 6 /\ out[Len(out)].msg = MsgSent

\* C6: a search call that returns zero items ends gather_results at once: the
\* results are those gathered before it and no search call follows.
C6_EmptyPageStops ==
    [][ /\ (ncalls' = ncalls + 1 /\ lastCall'.kind = "ok" /\ lastCall'.got = 0)
            => (results' = results /\ pc' = "gathered")
        /\ (lastCall.kind = "ok" /\ lastCall.got = 0)
            => (ncalls' = ncalls /\ results' = results) ]_vars

C6_Witness ==
    /\ pc = "smtp" /\ lastCall.kind = "ok" /\ lastCall.got = 0
    /\ Len(results) > 0 /\ Len(results) < MAX_RESULTS

\* C7: when the first search call returns no item, the result list is empty,
\* the digest carries the 'No results found.' notice and no <ol> or <li>, and
\* the mail is still sent, once, with that digest as its body.
C7_EmptyDigestStillSent ==
    FirstCallEmpty =>
        /\ results = <<>>
        /\ pc \in {"gathered", "smtp", "done", "raised"}
        /\ html.some =>
              /\ Contains(html.text, <<"N","o"," ","r","e","s","u","l","t","s"," ","f","o","u","n","d",".">>)
              /\ ~Contains(html.text, <<"<","o","l">>)
              /\ ~Contains(html.text, <<"<","/","o","l">>)
              /\ ~Contains(html.text, <<"<","l","i">>)
        /\ Len(delivered) <= 1
        /\ delivered # <<>> => (html.some /\ delivered[1] = html.text)
        /\ pc = "done" => Len(delivered) = 1
        /\ pc = "raised" => (smtpLog # <<>> /\ ~smtpLog[Len(smtpLog)].ok)

C7_Witness == FirstCallEmpty /\ pc = "done" /\ Len(delivered) = 1

\* C8: the digest holds no '<', '>' or '&' that comes from a title, link or
\* snippet: its only '<' and '>' are those of the template's tags, and every
\* '&' opens an entity, one per escaped character.
C8_FieldsEscaped ==
    html.some =>
        LET h == html.text IN
        /\ Count(h, "<") = TemplateTags(Len(results))
        /\ Count(h, ">") = TemplateTags(Len(results))
        /\ \A i \in DOMAIN h : h[i] = "&" => \E e \in Entities : StartsAt(h, i, e)
        /\ Count(h, "&") = CountSpecial(QUERY) + SumSpecial(results)

C8_Witness ==
    /\ html.some /\ Len(results) = 2
    /\ results[1].title = Some(<<"<","b",">","&">>)
    /\ results[2].snippet = Some(<<"'","&","a","m","p",";">>)

\* C9: every search call made with k results accumulated asks for
\* min(10, max_total - k) records at start = 1 + k; the first call starts at 1
\* and each later one at the previous start plus what the previous call returned.
C9_RequestParams ==
    /\ [](lastCall.kind # "none" =>
            LET rem == MAX_RESULTS - lastCall.have IN
            /\ lastCall.num = (IF rem < 10 THEN rem ELSE 10)
            /\ lastCall.num <= 10 /\ lastCall.num <= rem
            /\ lastCall.start = 1 + lastCall.have
            /\ ncalls = 1 => lastCall.start = 1)
    /\ [][(ncalls' = ncalls + 1 /\ ncalls >= 1) =>
            lastCall'.start = lastCall.start + lastCall.got]_vars

C9_Witness == ncalls >= 3 /\ lastCall.start > 10 /\ lastCall.num < 10 /\ lastCall.num > 0

\* C10: gather_results terminates, after at most max(max_total, 0) search
\* calls, since every call that keeps the loop going adds a record.
C10_GatherTerminates ==
    /\ [](ncalls <= Max0(MAX_RESULTS))
    /\ [][(ncalls' = ncalls + 1 /\ pc' = "gather") => Len(results') > Len(results)]_vars
    /\ (pc = "gather") ~> (pc # "gather")

C10_Witness == pc = "gathered" /\ ncalls = MAX_RESULTS /\ ncalls >= 3 /\ lastCall.got > 0

====
